---- MODULE Spec2Model ----
(***************************************************************************)
(* State-machine model of GIM_diag.py: the CAN diagnostic client           *)
(* Gim6010CANDiagnostic (frame addressing, wait_for_message, the command   *)
(* primitives, the two calibration pollers, full_diagnostic and the        *)
(* __main__ block).                                                        *)
(*                                                                         *)
(* Time.  time.time() is only ever subtracted from a start_time taken in   *)
(* the same function, so the model keeps, for each live start_time, the    *)
(* difference time.time() - start_time, counted in ticks of 1/TicksPerSec  *)
(* second.  Only bus.recv(timeout=1) and time.sleep(3) let time pass; a    *)
(* recv that returns a frame takes 1..TicksPerSec ticks, a recv that       *)
(* returns None takes exactly TicksPerSec ticks.                           *)
(*                                                                         *)
(* Control.  pc is the call stack, innermost activation last; an entry is  *)
(* the position of that activation.  The empty stack means the outermost   *)
(* call has returned (ret) or raised (raised); under __main__ an exception *)
(* lands in its handlers first.                                            *)
(***************************************************************************)
EXTENDS Integers, Sequences, FiniteSets, TLC

VARIABLES
    node_id,        \* the client's node_id field
    transport,      \* the bus of the client: how often acquired and shut down
    pc,             \* call stack of positions, innermost last
    w,              \* wait_for_message: [cmd, timeout, elapsed]
    c,              \* calibration poller: [kind, elapsed]
    error_type,     \* get_errors: its argument
    fd,             \* full_diagnostic locals
    ret,            \* value returned by the call that returned last
    raised,         \* exception propagating out of the outermost call
    sent,           \* frames handed to bus.send, in order
    rx,             \* history: what the recv calls of the current wait saw
    samples,        \* history: axis states the current poller decoded
    hist            \* history: returns of get_errors and of the pollers

vars == <<node_id, transport, pc, w, c, error_type, fd, ret, raised, sent, rx, samples, hist>>

(* Python values are tagged, so that values of different types can meet in *)
(* one variable: None, an int, a bool, a tuple of two, a received frame,   *)
(* and the exception a decoding raised.                                    *)
None == [t |-> "none"]
\* the int v + 2^32 * hi, with v < 2^32: TLC's integers are 32 bits
\* wide, the program's '<Q' values are not
WideV(lo, hi) == [t |-> "int", v |-> lo, hi |-> hi]
IntV(n) == WideV(n, 0)
IsZero(x) == x.v = 0 /\ x.hi = 0
BoolV(b) == [t |-> "bool", v |-> b]
Pair(a, b) == [t |-> "pair", a |-> a, b |-> b]
Msg(f) == [t |-> "msg", msg |-> f]
Exc(e) == [t |-> "raise", exc |-> e]
IsNone(x) == x.t = "none"

----------------------------------------------------------------------------
(* Bounds of the model *)

\* clock resolution: ticks per second
TicksPerSec == 2
\* how many decoded samples the poller history keeps
MaxSamples == 3

----------------------------------------------------------------------------
(* Program constants *)

NodeId == 1
OtherNode == 2
CmdHeartbeat == 1
CmdGetErrors == 3
CmdSetAxisState == 7
CmdGetEncoderEstimates == 9
CmdSaveConfiguration == 31
CmdReboot == 22
RecvTimeout == 1
PrimitiveTimeout == 3
PollTimeout == 1
DefaultTimeout == 5
MotorDeadline == 15
EncoderDeadline == 20
SettleDelay == 3
AxisIdle == 1
AxisMotorCalibration == 4
AxisEncoderCalibration == 7

----------------------------------------------------------------------------
(* Frame codec *)

RECURSIVE BitOr(_, _)
BitOr(a, b) ==
    IF a = 0 THEN b
    ELSE IF b = 0 THEN a
    ELSE (IF a % 2 = 1 \/ b % 2 = 1 THEN 1 ELSE 0) + 2 * BitOr(a \div 2, b \div 2)

\* a bug: the node id is shifted by 4 bits
CanIdShiftFour(node, cmd) == BitOr(node * 16, cmd)

\* can_id = (self.node_id << 5) | cmd_id
CanId(node, cmd) == BitOr(node * 32, cmd)

\* data = [0] * 8 when no payload is given
ZeroData == <<0, 0, 0, 0, 0, 0, 0, 0>>

\* can.Message(arbitration_id=can_id, data=data)
Message(cmd, data) == [id |-> CanId(node_id, cmd), data |-> data]

\* send_command(cmd_id, data): the bus after the send
SendCommand(bus, cmd, data) == Append(bus, Message(cmd, data))

\* [b0, 0, 0, 0, 0, 0, 0, 0]
OneByte(b) == <<b, 0, 0, 0, 0, 0, 0, 0>>

Take(s, n) == SubSeq(s, 1, IF n < Len(s) THEN n ELSE Len(s))

\* little-endian value of the bytes of b
RECURSIVE LittleEndian(_)
LittleEndian(b) == IF b = <<>> THEN 0 ELSE b[1] + 256 * LittleEndian(Tail(b))

\* struct.unpack('<I', data[0:4])[0]: struct.error when the slice is short
UnpackU32(data) ==
    IF Len(Take(data, 4)) < 4 THEN Exc("struct.error")
    ELSE IntV(LittleEndian(Take(data, 4)))

\* struct.unpack('<Q', data[0:8])[0]: struct.error when the slice is short
UnpackU64(data) ==
    IF Len(Take(data, 8)) < 8 THEN Exc("struct.error")
    ELSE WideV(LittleEndian(SubSeq(data, 1, 4)), LittleEndian(SubSeq(data, 5, 8)))

\* data[i] with Python's 0-based index: IndexError past the end
Index(data, i) == IF i + 1 > Len(data) THEN Exc("IndexError") ELSE IntV(data[i + 1])

----------------------------------------------------------------------------
(* The inbound side of the bus: what bus.recv may return *)

\* byte 4 of a heartbeat: Idle, the two calibration states, and 0 (undefined)
AxisStates == {0, AxisIdle, AxisMotorCalibration, AxisEncoderCalibration}

PayloadLens == {3, 5, 8}

\* heartbeats of the node: no error, any axis state, whole or cut short
HeartbeatPayloads ==
    {Take(<<0, 0, 0, 0, s, 0, 0, 0>>, n) : s \in AxisStates, n \in PayloadLens}

\* get-errors replies: no error, an error in the low word, an error in the
\* high word only, and a reply cut short
ErrorPayloads ==
    {ZeroData, <<1, 0, 0, 0, 0, 0, 0, 0>>, <<0, 0, 0, 0, 1, 0, 0, 0>>, <<0, 0, 0>>}

\* encoder estimates: whole or cut short
EstimatePayloads == {ZeroData, <<0, 0, 0>>}

PayloadsOf(cmd) ==
    IF cmd = CmdHeartbeat THEN HeartbeatPayloads
    ELSE IF cmd = CmdGetErrors THEN ErrorPayloads
    ELSE EstimatePayloads

InboundCmds == {CmdHeartbeat, CmdGetErrors, CmdGetEncoderEstimates}

\* re: the index in sent of the request the remote node answers with this
\* frame (0: unsolicited or stray).  The code never reads it.
ReplyTags(id, bus) == {0} \cup {i \in 1..Len(bus) : bus[i].id = id}

Frame(id, data, re) == [id |-> id, data |-> data, re |-> re]

\* frames of the diagnosed node: a heartbeat at any time, a reply to any
\* request sent so far (a reply may come late), or a stray frame
FromNode(bus) ==
    UNION {{Frame(CanId(node_id, k), p, r) :
               p \in PayloadsOf(k), r \in ReplyTags(CanId(node_id, k), bus)} :
           k \in InboundCmds}

\* traffic of another node on the shared bus
FromOthers == {Frame(CanId(OtherNode, k), ZeroData, 0) : k \in {CmdHeartbeat, CmdGetErrors}}

\* what a bus.recv may return when sent is what was sent so far
Inbound(bus) == FromNode(bus) \cup FromOthers

----------------------------------------------------------------------------
(* Call stack helpers *)

Top == IF pc = <<>> THEN "" ELSE pc[Len(pc)]
At(pos) == Top = pos
Caller == SubSeq(pc, 1, Len(pc) - 1)
\* the running activation moves to pos
Goto(pos) == pc' = Append(Caller, pos)
\* the running activation moves to pos and calls callee
Call(pos, callee) == pc' = Append(Append(Caller, pos), callee)
\* the running activation returns v
Return(v) == pc' = Caller /\ ret' = v
\* where an exception lands: in the handlers of __main__ when the call came
\* from its try block, out of the outermost call otherwise
Handler == IF pc # <<>> /\ pc[1] = "main_try" THEN <<"main_except">> ELSE <<>>
\* the running activation raises e: no method of the client catches it
Raise(e) == pc' = Handler /\ raised' = e /\ ret' = None
\* r when it is a value, the exception when the decoding raised
ReturnOrRaise(r) ==
    IF r.t = "raise" THEN Raise(r.exc) ELSE Return(r) /\ UNCHANGED raised

Sec(n) == n * TicksPerSec

----------------------------------------------------------------------------
(* wait_for_message(cmd_id, timeout) *)

\* start_time = time.time() on entry
WaitArgs(cmd, timeout) == [cmd |-> cmd, timeout |-> timeout, elapsed |-> 0]

\* while time.time() - start_time < timeout
WaitLoopGuard(elapsed, timeout) == elapsed < Sec(timeout)

\* a bug: only the command bits of the id are compared
WaitMatchesCmdOnly(msg, cmd) == msg.id % 32 = cmd

\* msg and msg.arbitration_id == can_id, for a frame (can.Message is truthy;
\* the recv that returns None is WaitRecvNone)
WaitMatches(msg, cmd) == msg.id = CanId(node_id, cmd)

\* d ticks pass: every live time.time() - start_time grows by d
Pass(d) ==
    /\ w' = [w EXCEPT !.elapsed = @ + d]
    /\ c' = IF c.kind = "none" THEN c ELSE [c EXCEPT !.elapsed = @ + d]

\* a bug: start_time is taken again whenever a frame is discarded
WaitReceivedRestart(f, d) ==
    /\ c' = IF c.kind = "none" THEN c ELSE [c EXCEPT !.elapsed = @ + d]
    /\ IF WaitMatches(f, w.cmd)
         THEN Return(Msg(f)) /\ w' = [w EXCEPT !.elapsed = @ + d]
         ELSE UNCHANGED <<pc, ret>> /\ w' = [w EXCEPT !.elapsed = 0]
    /\ UNCHANGED <<error_type, fd, raised, sent, hist>>

\* the rest of an iteration whose bus.recv(timeout=1) returned frame f
\* after d ticks
WaitReceived(f, d) ==
    /\ Pass(d)
    /\ IF WaitMatches(f, w.cmd)
         THEN Return(Msg(f))
         ELSE UNCHANGED <<pc, ret>>
    /\ UNCHANGED <<error_type, fd, raised, sent, hist>>

\* one iteration whose bus.recv(timeout=1) returns a frame
WaitRecvFrame ==
    /\ At("wfm_loop")
    /\ WaitLoopGuard(w.elapsed, w.timeout)
    /\ \E f \in Inbound(sent), d \in 1..Sec(RecvTimeout) : WaitReceived(f, d)

\* one iteration whose bus.recv(timeout=1) returns None after its timeout
WaitRecvNone ==
    /\ At("wfm_loop")
    /\ WaitLoopGuard(w.elapsed, w.timeout)
    /\ Pass(Sec(RecvTimeout))
    /\ UNCHANGED <<pc, ret>>
    /\ UNCHANGED <<error_type, fd, raised, sent, hist>>

\* the loop guard fails: return None
WaitExpire ==
    /\ At("wfm_loop")
    /\ ~WaitLoopGuard(w.elapsed, w.timeout)
    /\ Return(None)
    /\ UNCHANGED <<w, c, error_type, fd, raised, sent, hist>>

----------------------------------------------------------------------------
(* get_heartbeat() *)

\* a bug: the heartbeat is requested before it is awaited
GetHeartbeatBeginRequest ==
    /\ At("gh_begin")
    /\ sent' = SendCommand(sent, CmdHeartbeat, ZeroData)
    /\ w' = WaitArgs(CmdHeartbeat, PrimitiveTimeout)
    /\ Call("gh_wait", "wfm_loop")
    /\ UNCHANGED <<c, error_type, fd, ret, raised, hist>>

\* wait_for_message(0x001, timeout=3); no frame is sent
GetHeartbeatBegin ==
    /\ At("gh_begin")
    /\ w' = WaitArgs(CmdHeartbeat, PrimitiveTimeout)
    /\ Call("gh_wait", "wfm_loop")
    /\ UNCHANGED <<c, error_type, fd, ret, raised, sent, hist>>

\* axis_state = msg.data[4]; flags = msg.data[5]; error = unpack('<I', ...)
HeartbeatResult(r) ==
    IF IsNone(r) THEN Pair(None, None)
    ELSE LET axis_state == Index(r.msg.data, 4)
             flags == Index(r.msg.data, 5)
             error == UnpackU32(r.msg.data)
         IN  IF axis_state.t = "raise" THEN axis_state
             ELSE IF flags.t = "raise" THEN flags
             ELSE IF error.t = "raise" THEN error
             ELSE Pair(axis_state, error)

GetHeartbeatDecode ==
    /\ At("gh_wait")
    /\ ReturnOrRaise(HeartbeatResult(ret))
    /\ UNCHANGED <<w, c, error_type, fd, sent, hist>>

----------------------------------------------------------------------------
(* get_errors(error_type) *)

\* send_command(0x003, [error_type, 0, ...]); wait_for_message(0x003, timeout=3)
GetErrorsBegin ==
    /\ At("ge_begin")
    /\ sent' = SendCommand(sent, CmdGetErrors, OneByte(error_type))
    /\ w' = WaitArgs(CmdGetErrors, PrimitiveTimeout)
    /\ Call("ge_wait", "wfm_loop")
    /\ UNCHANGED <<c, error_type, fd, ret, raised, hist>>

\* a bug: every error type is decoded as 32 bits
ErrorsResultAlwaysWord(r, etype) ==
    IF IsNone(r) THEN IntV(0) ELSE UnpackU32(r.msg.data)

\* '<Q' of data[0:8] for the motor, '<I' of data[0:4] otherwise; 0 on None
ErrorsResult(r, etype) ==
    IF IsNone(r) THEN IntV(0)
    ELSE IF etype = 0 THEN UnpackU32(r.msg.data)
    ELSE IF etype = 1 THEN UnpackU64(r.msg.data)
    ELSE UnpackU32(r.msg.data)

GetErrorsDecode ==
    /\ At("ge_wait")
    /\ ReturnOrRaise(ErrorsResult(ret, error_type))
    /\ hist' = IF ErrorsResult(ret, error_type).t = "raise" THEN hist
               ELSE Append(hist, [fn |-> "get_errors", arg |-> error_type,
                                  value |-> ErrorsResult(ret, error_type),
                                  replied |-> ~IsNone(ret)])
    /\ UNCHANGED <<w, c, error_type, fd, sent>>

----------------------------------------------------------------------------
(* get_encoder_estimates() *)

GetEncoderEstimatesBegin ==
    /\ At("gee_begin")
    /\ sent' = SendCommand(sent, CmdGetEncoderEstimates, ZeroData)
    /\ w' = WaitArgs(CmdGetEncoderEstimates, PrimitiveTimeout)
    /\ Call("gee_wait", "wfm_loop")
    /\ UNCHANGED <<c, error_type, fd, ret, raised, hist>>

\* the two float32 values, kept as their bit patterns
EstimatesResult(r) ==
    IF IsNone(r) THEN Pair(None, None)
    ELSE LET pos == UnpackU32(Take(r.msg.data, 4))
             vel == UnpackU32(SubSeq(r.msg.data, 5, Len(Take(r.msg.data, 8))))
         IN  IF pos.t = "raise" THEN pos
             ELSE IF vel.t = "raise" THEN vel
             ELSE Pair(pos, vel)

GetEncoderEstimatesDecode ==
    /\ At("gee_wait")
    /\ ReturnOrRaise(EstimatesResult(ret))
    /\ UNCHANGED <<w, c, error_type, fd, sent, hist>>

----------------------------------------------------------------------------
(* test_motor_calibration() and test_encoder_calibration(): the same code  *)
(* with kind-specific start state and deadline                             *)

\* a bug: the encoder poller copies the motor poller's start state
AlwaysMotorState(kind) == AxisMotorCalibration

StartState(kind) ==
    IF kind = "motor" THEN AxisMotorCalibration ELSE AxisEncoderCalibration

Deadline(kind) == IF kind = "motor" THEN MotorDeadline ELSE EncoderDeadline

\* start_time = time.time() after the start command was sent
CalArgs(kind) == [kind |-> kind, elapsed |-> 0]

\* the entry of the poller called for kind
CalEntry(kind) == IF kind = "motor" THEN "tmc_begin" ELSE "tec_begin"

\* a bug: the deadline is compared in the wrong unit
CalLoopGuardTicks(elapsed, kind) == elapsed < Deadline(kind)

\* while time.time() - start_time < 15 (20)
CalLoopGuard(elapsed, kind) == elapsed < Sec(Deadline(kind))

\* a bug: the corrective command is sent whatever the outcome
AlwaysCorrective(success) == <<Message(CmdSetAxisState, OneByte(AxisIdle))>>

\* if not success: send_command(0x007, [1, 0, ...])
CorrectiveFrames(success) ==
    IF ~success THEN <<Message(CmdSetAxisState, OneByte(AxisIdle))>> ELSE <<>>

\* the code after the loop: the corrective command, then return success
CalReturn(success) ==
    /\ sent' = sent \o CorrectiveFrames(success)
    /\ Return(BoolV(success))
    /\ hist' = Append(hist, [fn |-> "calibration", arg |-> c.kind,
                             value |-> success])

\* send_command(0x007, [4 or 7, 0, ...]); start_time = time.time()
CalBegin ==
    /\ \E kind \in {"motor", "encoder"} :
          /\ At(CalEntry(kind))
          /\ sent' = SendCommand(sent, CmdSetAxisState, OneByte(StartState(kind)))
          /\ c' = CalArgs(kind)
    /\ Goto("cal_loop")
    /\ UNCHANGED <<w, error_type, fd, ret, raised, hist>>

\* the loop guard holds: msg = wait_for_message(0x001, timeout=1)
CalPoll ==
    /\ At("cal_loop")
    /\ CalLoopGuard(c.elapsed, c.kind)
    /\ w' = WaitArgs(CmdHeartbeat, PollTimeout)
    /\ Call("cal_wait", "wfm_loop")
    /\ UNCHANGED <<c, error_type, fd, ret, raised, sent, hist>>

\* the loop guard fails with success still False
CalDeadline ==
    /\ At("cal_loop")
    /\ ~CalLoopGuard(c.elapsed, c.kind)
    /\ CalReturn(FALSE)
    /\ UNCHANGED <<w, c, error_type, fd, raised>>

\* axis_state = msg.data[4] of the frame the wait returned
CalAxisState(r) == Index(r.msg.data, 4)

\* the wait returned None: next iteration
CalNoSample ==
    /\ At("cal_wait")
    /\ IsNone(ret)
    /\ Goto("cal_loop")
    /\ UNCHANGED <<w, c, error_type, fd, ret, raised, sent, hist>>

\* a bug: an axis state that is neither Idle nor the state the start
\* command asked for ends the loop as a failure
CalSampleStrict ==
    /\ At("cal_wait")
    /\ ~IsNone(ret)
    /\ LET axis_state == CalAxisState(ret)
       IN  IF axis_state.t = "raise"
             THEN Raise(axis_state.exc) /\ UNCHANGED <<sent, hist>>
           ELSE IF axis_state.v = AxisIdle
             THEN CalReturn(TRUE) /\ UNCHANGED raised
           ELSE IF axis_state.v # StartState(c.kind)
             THEN CalReturn(FALSE) /\ UNCHANGED raised
           ELSE Goto("cal_loop") /\ UNCHANGED <<ret, raised, sent, hist>>
    /\ UNCHANGED <<w, c, error_type, fd>>

\* the wait returned a heartbeat: Idle ends the loop with success, any other
\* state goes round again, a payload without byte 4 raises
CalSample ==
    /\ At("cal_wait")
    /\ ~IsNone(ret)
    /\ LET axis_state == CalAxisState(ret)
       IN  IF axis_state.t = "raise"
             THEN Raise(axis_state.exc) /\ UNCHANGED <<sent, hist>>
           ELSE IF axis_state.v = AxisIdle
             THEN CalReturn(TRUE) /\ UNCHANGED raised
           ELSE Goto("cal_loop") /\ UNCHANGED <<ret, raised, sent, hist>>
    /\ UNCHANGED <<w, c, error_type, fd>>

----------------------------------------------------------------------------
(* save_and_reboot() *)

\* send_command(0x01F); time.sleep(3)
SaveConfiguration ==
    /\ At("sr_begin")
    /\ sent' = SendCommand(sent, CmdSaveConfiguration, ZeroData)
    /\ Pass(Sec(SettleDelay))
    /\ Goto("sr_reboot")
    /\ UNCHANGED <<error_type, fd, ret, raised, hist>>

\* send_command(0x016); time.sleep(3)
Reboot ==
    /\ At("sr_reboot")
    /\ sent' = SendCommand(sent, CmdReboot, ZeroData)
    /\ Pass(Sec(SettleDelay))
    /\ Return(None)
    /\ UNCHANGED <<error_type, fd, raised, hist>>

----------------------------------------------------------------------------
(* full_diagnostic() *)

\* state is kept as None or "axis": its value is only printed (line 39), the
\* code reads no more of it than `state is None`
FdLocals == [state |-> None, system_error |-> None, motor_error |-> None,
             encoder_error |-> None, motor_ok |-> None, encoder_ok |-> None]

\* 1. state, error = self.get_heartbeat()
FdBegin ==
    /\ At("fd_begin")
    /\ Call("fd_heartbeat", "gh_begin")
    /\ UNCHANGED <<w, c, error_type, fd, ret, raised, sent, hist>>

\* a bug: the missing heartbeat is not acted on
NoEarlyReturn(state) == FALSE

\* if state is None: return False
EarlyReturn(state) == IsNone(state)

\* the heartbeat step returned; 2. system_error = self.get_errors(0)
FdAfterHeartbeat ==
    /\ At("fd_heartbeat")
    /\ fd' = [fd EXCEPT !.state = IF IsNone(ret.a) THEN None ELSE [t |-> "axis"]]
    /\ IF EarlyReturn(ret.a)
         THEN Return(BoolV(FALSE)) /\ UNCHANGED error_type
         ELSE error_type' = 0 /\ Call("fd_errors0", "ge_begin") /\ UNCHANGED ret
    /\ UNCHANGED <<w, c, raised, sent, hist>>

\* motor_error = self.get_errors(1)
FdAfterSystemErrors ==
    /\ At("fd_errors0")
    /\ fd' = [fd EXCEPT !.system_error = ret]
    /\ error_type' = 1
    /\ Call("fd_errors1", "ge_begin")
    /\ UNCHANGED <<w, c, ret, raised, sent, hist>>

\* encoder_error = self.get_errors(4)
FdAfterMotorErrors ==
    /\ At("fd_errors1")
    /\ fd' = [fd EXCEPT !.motor_error = ret]
    /\ error_type' = 4
    /\ Call("fd_errors4", "ge_begin")
    /\ UNCHANGED <<w, c, ret, raised, sent, hist>>

\* 3. pos, vel = self.get_encoder_estimates()
FdAfterEncoderErrors ==
    /\ At("fd_errors4")
    /\ fd' = [fd EXCEPT !.encoder_error = ret]
    /\ Call("fd_estimates", "gee_begin")
    /\ UNCHANGED <<w, c, error_type, ret, raised, sent, hist>>

\* 4. motor_ok = self.test_motor_calibration()  (pos, vel are never read)
FdAfterEstimates ==
    /\ At("fd_estimates")
    /\ Call("fd_motor", CalEntry("motor"))
    /\ UNCHANGED <<w, c, error_type, fd, ret, raised, sent, hist>>

\* 5. encoder_ok = self.test_encoder_calibration()
FdAfterMotorCalibration ==
    /\ At("fd_motor")
    /\ fd' = [fd EXCEPT !.motor_ok = ret]
    /\ Call("fd_encoder", CalEntry("encoder"))
    /\ UNCHANGED <<w, c, error_type, ret, raised, sent, hist>>

\* 6. self.save_and_reboot()
FdAfterEncoderCalibration ==
    /\ At("fd_encoder")
    /\ fd' = [fd EXCEPT !.encoder_ok = ret]
    /\ Call("fd_save", "sr_begin")
    /\ UNCHANGED <<w, c, error_type, ret, raised, sent, hist>>

\* a bug: the errors are compared as 32-bit values
OverallOkLowWord(l) ==
    /\ l.system_error.v = 0
    /\ l.motor_error.v = 0
    /\ l.encoder_error.v = 0
    /\ l.motor_ok.v
    /\ l.encoder_ok.v

\* overall_ok = (system_error == 0 and motor_error == 0 and
\*               encoder_error == 0 and motor_ok and encoder_ok)
OverallOk(l) ==
    /\ IsZero(l.system_error)
    /\ IsZero(l.motor_error)
    /\ IsZero(l.encoder_error)
    /\ l.motor_ok.v
    /\ l.encoder_ok.v

\* 7. return overall_ok
FdFinish ==
    /\ At("fd_save")
    /\ Return(BoolV(OverallOk(fd)))
    /\ UNCHANGED <<w, c, error_type, fd, raised, sent, hist>>

----------------------------------------------------------------------------
(* Specifications *)

\* rx: how many frames the recv calls of the wait returned, how many of
\* them carried the expected id, the first of those, and how many recv
\* calls returned None
NoRx == [frames |-> 0, matched |-> 0, first |-> <<>>, quiet |-> 0]

\* samples: the first MaxSamples axis states the poller decoded, whether
\* there were more, and whether all of them were the in-progress state
NoSamples == [first |-> <<>>, more |-> FALSE, steady |-> TRUE]

\* the bus of a constructed client: acquired once (line 9), not shut down
Acquired == [acquired |-> 1, shutdowns |-> 0]

InitCommon ==
    /\ node_id = NodeId
    /\ transport = Acquired
    /\ c = [kind |-> "none", elapsed |-> 0]
    /\ error_type = 0
    /\ fd = FdLocals
    /\ ret = None
    /\ raised = "none"
    /\ sent = <<>>
    /\ rx = NoRx
    /\ samples = NoSamples
    /\ hist = <<>>

\* a freshly constructed client whose full_diagnostic() is called (line 202)
Init ==
    /\ pc = <<"fd_begin">>
    /\ w = WaitArgs(CmdHeartbeat, PrimitiveTimeout)
    /\ InitCommon

\* no method of the client assigns node_id or the bus after construction
Constructed == UNCHANGED <<node_id, transport>>

\* the history variables rx and samples are written by the observing
\* specifications only
Unobserved == UNCHANGED <<rx, samples>> /\ Constructed

Next ==
    \/ WaitRecvFrame /\ Unobserved
    \/ WaitRecvNone /\ Unobserved
    \/ WaitExpire /\ Unobserved
    \/ GetHeartbeatBegin /\ Unobserved
    \/ GetHeartbeatDecode /\ Unobserved
    \/ GetErrorsBegin /\ Unobserved
    \/ GetErrorsDecode /\ Unobserved
    \/ GetEncoderEstimatesBegin /\ Unobserved
    \/ GetEncoderEstimatesDecode /\ Unobserved
    \/ CalBegin /\ Unobserved
    \/ CalPoll /\ Unobserved
    \/ CalDeadline /\ Unobserved
    \/ CalNoSample /\ Unobserved
    \/ CalSample /\ Unobserved
    \/ FdBegin /\ Unobserved
    \/ FdAfterHeartbeat /\ Unobserved
    \/ FdAfterSystemErrors /\ Unobserved
    \/ FdAfterMotorErrors /\ Unobserved
    \/ FdAfterEncoderErrors /\ Unobserved
    \/ FdAfterEstimates /\ Unobserved
    \/ FdAfterMotorCalibration /\ Unobserved
    \/ FdAfterEncoderCalibration /\ Unobserved
    \/ SaveConfiguration /\ Unobserved
    \/ Reboot /\ Unobserved
    \/ FdFinish /\ Unobserved

Spec == Init /\ [][Next]_vars

----------------------------------------------------------------------------
(* full_diagnostic on a bus that carries heartbeats in any axis state,     *)
(* whole or cut short, error-free replies, and another node's traffic      *)

Stream ==
    {Frame(CanId(node_id, CmdHeartbeat), Take(<<0, 0, 0, 0, a, 0, 0, 0>>, n), 0) :
        a \in AxisStates, n \in {3, 8}}
      \cup {Frame(CanId(node_id, k), ZeroData, 0) :
                k \in {CmdGetErrors, CmdGetEncoderEstimates}}
      \cup FromOthers

\* one iteration whose bus.recv(timeout=1) returns a frame of the stream
WaitRecvStream ==
    /\ At("wfm_loop")
    /\ WaitLoopGuard(w.elapsed, w.timeout)
    /\ \E f \in Stream, d \in 1..Sec(RecvTimeout) : WaitReceived(f, d)

NextStream ==
    \/ WaitRecvStream /\ Unobserved
    \/ WaitRecvNone /\ Unobserved
    \/ WaitExpire /\ Unobserved
    \/ GetHeartbeatBegin /\ Unobserved
    \/ GetHeartbeatDecode /\ Unobserved
    \/ GetErrorsBegin /\ Unobserved
    \/ GetErrorsDecode /\ Unobserved
    \/ GetEncoderEstimatesBegin /\ Unobserved
    \/ GetEncoderEstimatesDecode /\ Unobserved
    \/ CalBegin /\ Unobserved
    \/ CalPoll /\ Unobserved
    \/ CalDeadline /\ Unobserved
    \/ CalNoSample /\ Unobserved
    \/ CalSample /\ Unobserved
    \/ FdBegin /\ Unobserved
    \/ FdAfterHeartbeat /\ Unobserved
    \/ FdAfterSystemErrors /\ Unobserved
    \/ FdAfterMotorErrors /\ Unobserved
    \/ FdAfterEncoderErrors /\ Unobserved
    \/ FdAfterEstimates /\ Unobserved
    \/ FdAfterMotorCalibration /\ Unobserved
    \/ FdAfterEncoderCalibration /\ Unobserved
    \/ SaveConfiguration /\ Unobserved
    \/ Reboot /\ Unobserved
    \/ FdFinish /\ Unobserved

SpecStream == Init /\ [][NextStream]_vars

\* the interpreter keeps executing: every send, recv and sleep returns and
\* the next statement runs
FairSpecStream == SpecStream /\ WF_vars(NextStream)

----------------------------------------------------------------------------
(* wait_for_message called on its own, observed *)

WaitTimeouts == {PollTimeout, PrimitiveTimeout, DefaultTimeout}

InitWait ==
    /\ pc = <<"wfm_loop">>
    /\ w \in {WaitArgs(k, t) : k \in InboundCmds, t \in WaitTimeouts}
    /\ InitCommon

\* the id the caller expects, computed from the bit layout: node in bits
\* 5 and up, command in bits 0..4
Expected(f) == f.id \div 32 = node_id /\ f.id % 32 = w.cmd

\* the counters of rx stop at the number of recv calls the longest wait
\* can make
Count(n) == IF n < Sec(DefaultTimeout) + 1 THEN n + 1 ELSE n

\* one iteration whose bus.recv(timeout=1) returns one of frames, observed
ObservedRecvFrom(frames) ==
    /\ At("wfm_loop")
    /\ WaitLoopGuard(w.elapsed, w.timeout)
    /\ \E f \in frames, d \in 1..Sec(RecvTimeout) :
          /\ WaitReceived(f, d)
          /\ rx' = [rx EXCEPT !.frames = Count(@),
                              !.matched = IF Expected(f) THEN Count(@) ELSE @,
                              !.first = IF Expected(f) /\ @ = <<>> THEN <<f>> ELSE @]
    /\ UNCHANGED samples /\ Constructed

ObservedRecvFrame == ObservedRecvFrom(Inbound(sent))

ObservedRecvNone ==
    /\ WaitRecvNone
    /\ rx' = [rx EXCEPT !.quiet = Count(@)]
    /\ UNCHANGED samples /\ Constructed

ObservedExpire == WaitExpire /\ Unobserved

NextWait ==
    \/ ObservedRecvFrame
    \/ ObservedRecvNone
    \/ ObservedExpire

SpecWait == InitWait /\ [][NextWait]_vars

\* the loop of wait_for_message keeps running: bus.recv(timeout=1) returns
\* within its timeout and the interpreter executes the next statement
FairSpecWait == SpecWait /\ WF_vars(NextWait)

----------------------------------------------------------------------------
(* a calibration poller called on its own, observed *)

InitCal ==
    /\ \E kind \in {"motor", "encoder"} : pc = <<CalEntry(kind)>>
    /\ w = WaitArgs(CmdHeartbeat, PollTimeout)
    /\ InitCommon

Record(h, axis_state, kind) ==
    [first  |-> IF Len(h.first) < MaxSamples THEN Append(h.first, axis_state) ELSE h.first,
     more   |-> Len(h.first) >= MaxSamples,
     steady |-> h.steady /\ axis_state = StartState(kind)]

ObservedCalSample ==
    /\ CalSample
    /\ samples' = IF CalAxisState(ret).t = "raise" THEN samples
                  ELSE Record(samples, CalAxisState(ret).v, c.kind)
    /\ UNCHANGED rx /\ Constructed

NextCal ==
    \/ WaitRecvFrame /\ Unobserved
    \/ WaitRecvNone /\ Unobserved
    \/ WaitExpire /\ Unobserved
    \/ CalBegin /\ Unobserved
    \/ CalPoll /\ Unobserved
    \/ CalDeadline /\ Unobserved
    \/ CalNoSample /\ Unobserved
    \/ ObservedCalSample

SpecCal == InitCal /\ [][NextCal]_vars

----------------------------------------------------------------------------
(* get_heartbeat called on its own, by a client that has or has not sent a *)
(* get-errors request before                                               *)

InitHeartbeat ==
    /\ pc = <<"gh_begin">>
    /\ w = WaitArgs(CmdHeartbeat, PrimitiveTimeout)
    /\ node_id = NodeId
    /\ transport = Acquired
    /\ c = [kind |-> "none", elapsed |-> 0]
    /\ error_type = 0
    /\ fd = FdLocals
    /\ ret = None
    /\ raised = "none"
    /\ sent \in {<<>>, <<[id |-> CanId(NodeId, CmdGetErrors), data |-> ZeroData]>>}
    /\ rx = NoRx
    /\ samples = NoSamples
    /\ hist = <<>>

NextHeartbeat ==
    \/ GetHeartbeatBegin /\ Unobserved
    \/ ObservedRecvFrame
    \/ ObservedRecvNone
    \/ ObservedExpire
    \/ GetHeartbeatDecode /\ Unobserved

SpecHeartbeat == InitHeartbeat /\ [][NextHeartbeat]_vars

----------------------------------------------------------------------------
(* send_command(cmd_id) followed by wait_for_message(cmd_id, 1), by a      *)
(* client of any node id below 2^6, for any command id below 2^5           *)

NodeIds == 0 .. (2^6 - 1)
CmdIds == 0 .. (2^5 - 1)

\* a frame some sender addressed to node with command cmd; the two are
\* carried along for the record, the code reads the id only
Addressed(node, cmd) ==
    [id |-> CanId(node, cmd), data |-> ZeroData, re |-> 0,
     node |-> node, cmd |-> cmd]

\* the frame the client waits for, and frames that differ from it in the
\* lowest or the highest bit of the node id or of the command id
Neighbours ==
    {Addressed(n, k) :
        n \in {node_id, (node_id + 1) % 2^6, (node_id + 2^5) % 2^6},
        k \in {w.cmd, (w.cmd + 1) % 2^5, (w.cmd + 2^4) % 2^5}}

InitAddressed ==
    /\ pc = <<"sc_begin">>
    /\ node_id \in NodeIds
    /\ w \in {WaitArgs(k, PollTimeout) : k \in CmdIds}
    /\ transport = Acquired
    /\ c = [kind |-> "none", elapsed |-> 0]
    /\ error_type = 0
    /\ fd = FdLocals
    /\ ret = None
    /\ raised = "none"
    /\ sent = <<>>
    /\ rx = NoRx
    /\ samples = NoSamples
    /\ hist = <<>>

\* send_command(cmd_id), then the wait for the frame with the same id
SendCommandCall ==
    /\ At("sc_begin")
    /\ sent' = SendCommand(sent, w.cmd, ZeroData)
    /\ Goto("wfm_loop")
    /\ UNCHANGED <<w, c, error_type, fd, ret, raised, hist>>

\* one iteration whose bus.recv(timeout=1) returns an addressed frame
WaitRecvAddressed ==
    /\ At("wfm_loop")
    /\ WaitLoopGuard(w.elapsed, w.timeout)
    /\ \E f \in Neighbours, d \in 1..Sec(RecvTimeout) : WaitReceived(f, d)

NextAddressed ==
    \/ SendCommandCall /\ Unobserved
    \/ WaitRecvAddressed /\ Unobserved
    \/ WaitRecvNone /\ Unobserved
    \/ WaitExpire /\ Unobserved

SpecAddressed == InitAddressed /\ [][NextAddressed]_vars

----------------------------------------------------------------------------
(* get_errors(error_type) called on its own, with replies of many values   *)

ErrorTypes == {0, 1, 3, 4}

\* replies of 8 and of 4 bytes whose bytes 0, 1, 4 and 7 vary (byte 7 stays
\* below 128: TLC's integers are 32 bits wide)
ErrorReplyPayloads ==
    {Take(<<a, b, 0, 0, e, 0, 0, h>>, n) :
        a \in {0, 1, 255}, b \in {0, 1, 255}, e \in {0, 1, 255}, h \in {0, 1, 127},
        n \in {4, 8}}

ErrorReplies ==
    {Frame(CanId(node_id, CmdGetErrors), p, 1) : p \in ErrorReplyPayloads}
        \cup FromOthers

InitErrors ==
    /\ pc = <<"ge_begin">>
    /\ error_type \in ErrorTypes
    /\ w = WaitArgs(CmdGetErrors, PrimitiveTimeout)
    /\ node_id = NodeId
    /\ transport = Acquired
    /\ c = [kind |-> "none", elapsed |-> 0]
    /\ fd = FdLocals
    /\ ret = None
    /\ raised = "none"
    /\ sent = <<>>
    /\ rx = NoRx
    /\ samples = NoSamples
    /\ hist = <<>>

ObservedRecvErrorReply == ObservedRecvFrom(ErrorReplies)

NextErrors ==
    \/ GetErrorsBegin /\ Unobserved
    \/ ObservedRecvErrorReply
    \/ ObservedRecvNone
    \/ ObservedExpire
    \/ GetErrorsDecode /\ Unobserved

SpecErrors == InitErrors /\ [][NextErrors]_vars

----------------------------------------------------------------------------
(* __main__: construct the client, run full_diagnostic, report, shut down  *)

NotAcquired == [acquired |-> 0, shutdowns |-> 0]

InitMain ==
    /\ pc = <<"main_begin">>
    /\ w = WaitArgs(CmdHeartbeat, PrimitiveTimeout)
    /\ node_id = NodeId
    /\ transport = NotAcquired
    /\ c = [kind |-> "none", elapsed |-> 0]
    /\ error_type = 0
    /\ fd = FdLocals
    /\ ret = None
    /\ raised = "none"
    /\ sent = <<>>
    /\ rx = NoRx
    /\ samples = NoSamples
    /\ hist = <<>>

\* diagnostic = Gim6010CANDiagnostic(...): the bus is created and the name
\* diagnostic is bound; then diagnostic.full_diagnostic() is called
MainConstruct ==
    /\ At("main_begin")
    /\ transport' = [transport EXCEPT !.acquired = @ + 1]
    /\ pc' = <<"main_try", "fd_begin">>
    /\ UNCHANGED <<node_id, w, c, error_type, fd, ret, raised, sent, hist>>

\* can.interface.Bus raises (no such interface, no permission), or the
\* user interrupts the construction: diagnostic is never bound
MainConstructFails ==
    /\ At("main_begin")
    /\ \E e \in {"OSError", "KeyboardInterrupt"} : raised' = e
    /\ pc' = <<"main_except">>
    /\ UNCHANGED <<node_id, transport, w, c, error_type, fd, ret, sent, hist>>

\* Ctrl-C while full_diagnostic runs: KeyboardInterrupt propagates to main
Interrupt ==
    /\ Len(pc) > 1
    /\ pc[1] = "main_try"
    /\ Raise("KeyboardInterrupt")
    /\ UNCHANGED <<node_id, transport, w, c, error_type, fd, sent, hist>>

\* bus.recv raises a transport error (can.CanError: the interface went down)
WaitRecvError ==
    /\ At("wfm_loop")
    /\ WaitLoopGuard(w.elapsed, w.timeout)
    /\ Raise("CanError")
    /\ UNCHANGED <<w, c, error_type, fd, sent, hist>>

\* full_diagnostic returned: one of the two messages is printed
MainReport ==
    /\ pc = <<"main_try">>
    /\ Goto("main_finally")
    /\ UNCHANGED <<node_id, transport, w, c, error_type, fd, ret, raised, sent, hist>>

\* except KeyboardInterrupt / except Exception: the handler prints and the
\* exception is handled
MainExcept ==
    /\ At("main_except")
    /\ raised' = "none"
    /\ Goto("main_finally")
    /\ UNCHANGED <<node_id, transport, w, c, error_type, fd, ret, sent, hist>>

\* finally: diagnostic.bus.shutdown(); NameError when diagnostic was never
\* bound, and nothing is left to catch it
MainFinally ==
    /\ At("main_finally")
    /\ pc' = <<>>
    /\ IF transport.acquired = 0
         THEN raised' = "NameError" /\ UNCHANGED transport
         ELSE transport' = [transport EXCEPT !.shutdowns = @ + 1] /\ UNCHANGED raised
    /\ UNCHANGED <<node_id, w, c, error_type, fd, ret, sent, hist>>

NextMain ==
    \/ MainConstruct /\ UNCHANGED <<rx, samples>>
    \/ MainConstructFails /\ UNCHANGED <<rx, samples>>
    \/ Interrupt /\ UNCHANGED <<rx, samples>>
    \/ WaitRecvError /\ Unobserved
    \/ MainReport /\ UNCHANGED <<rx, samples>>
    \/ MainExcept /\ UNCHANGED <<rx, samples>>
    \/ MainFinally /\ UNCHANGED <<rx, samples>>
    \/ Next

SpecMain == InitMain /\ [][NextMain]_vars

----------------------------------------------------------------------------
(* a calibration poller called on its own, on a bus that may fail and that *)
(* may still hold frames from before the start command                     *)

\* stale: the frame was emitted before the start command of the poller took
\* effect at the node.  The code has no way to tell and never reads it.
Tagged(f, stale) == [id |-> f.id, data |-> f.data, re |-> f.re, stale |-> stale]

QueuedOrFresh == {Tagged(f, stale) : f \in Inbound(sent), stale \in BOOLEAN}

\* one iteration whose bus.recv(timeout=1) returns a frame, old or new
WaitRecvQueuedOrFresh ==
    /\ At("wfm_loop")
    /\ WaitLoopGuard(w.elapsed, w.timeout)
    /\ \E f \in QueuedOrFresh, d \in 1..Sec(RecvTimeout) : WaitReceived(f, d)

NextPoll ==
    \/ WaitRecvQueuedOrFresh /\ Unobserved
    \/ WaitRecvNone /\ Unobserved
    \/ WaitRecvError /\ Unobserved
    \/ WaitExpire /\ Unobserved
    \/ CalBegin /\ Unobserved
    \/ CalPoll /\ Unobserved
    \/ CalDeadline /\ Unobserved
    \/ CalNoSample /\ Unobserved
    \/ CalSample /\ Unobserved

SpecPoll == InitCal /\ [][NextPoll]_vars

----------------------------------------------------------------------------
(* Properties *)

Returned == pc = <<>> /\ raised = "none"

\* C1: wait_for_message never returns a frame whose arbitration id differs
\* from (node_id << 5) | cmd_id, and the frame it returns is the first frame
\* with that id that a recv returned: no such frame is passed over while the
\* wait runs or before it returns None, and the frames before it are dropped.
C1_FirstMatchingFrame ==
    /\ (Returned /\ ~IsNone(ret) =>
            /\ Expected(ret.msg)
            /\ rx.matched = 1
            /\ rx.first = <<ret.msg>>)
    /\ (Returned /\ IsNone(ret) => rx.matched = 0)
    /\ (pc # <<>> => rx.matched = 0)

\* the wait returned a matching frame after discarding two others
C1_Witness ==
    /\ Returned
    /\ ~IsNone(ret)
    /\ rx.frames = 3
    /\ rx.matched = 1

\* C2: wait_for_message eventually returns, and returns None when no frame
\* with the expected id arrived, however many other frames arrive.
C2_EventuallyTimesOut == <>(Returned /\ (rx.matched = 0 => IsNone(ret)))

\* the wait timed out although every recv of it returned a frame
C2_Witness ==
    /\ Returned
    /\ IsNone(ret)
    /\ rx.quiet = 0
    /\ rx.frames >= 3
    /\ w.timeout = PrimitiveTimeout

\* C10: wait_for_message(cmd_id, timeout=T) returns no later than T after it
\* began.
C10_ReturnsWithinTimeout == pc = <<>> => w.elapsed <= Sec(w.timeout)

----------------------------------------------------------------------------

SetAxisStateFrame(state) == [id |-> 39, data |-> <<state, 0, 0, 0, 0, 0, 0, 0>>]

\* C3: a poller that decodes the samples in-progress, in-progress, Idle
\* (4, 4, 1 for the motor, 7, 7, 1 for the encoder) returns True and has sent
\* its start command only.
C3_SuccessWithoutCorrective ==
    \A kind \in {"motor", "encoder"} :
        LET s == IF kind = "motor" THEN 4 ELSE 7
        IN  Returned /\ c.kind = kind /\ samples.first = <<s, s, 1>>
                => ret = BoolV(TRUE) /\ sent = <<SetAxisStateFrame(s)>>

\* the motor poller returned after the samples 4, 4, 1, before 15 s
C3_Witness ==
    /\ Returned
    /\ c.kind = "motor"
    /\ samples.first = <<4, 4, 1>>
    /\ c.elapsed < Sec(15)
    /\ ret.t = "bool"

\* C4: a poller all of whose samples are in-progress returns False with
\* exactly the start command and one corrective Idle command sent, in that
\* order; a corrective command is never sent twice, nor before the deadline
\* (15 s motor, 20 s encoder) has elapsed.
C4_FailedWithOneCorrective ==
    LET idle == {i \in DOMAIN sent : sent[i] = SetAxisStateFrame(1)}
        limit == IF c.kind = "motor" THEN 15 * TicksPerSec ELSE 20 * TicksPerSec
    IN  /\ Cardinality(idle) <= 1
        /\ idle # {} => pc = <<>> /\ c.elapsed >= limit /\ idle = {2}
        /\ Returned /\ samples.steady =>
               /\ ret = BoolV(FALSE)
               /\ sent = <<SetAxisStateFrame(IF c.kind = "motor" THEN 4 ELSE 7),
                           SetAxisStateFrame(1)>>

\* the motor poller failed after more than MaxSamples samples, all of them 4
C4_Witness ==
    /\ Returned
    /\ c.kind = "motor"
    /\ samples.steady
    /\ samples.more
    /\ ret = BoolV(FALSE)
    /\ Len(sent) = 2

----------------------------------------------------------------------------

GetErrorsFrame(etype) == [id |-> 35, data |-> <<etype, 0, 0, 0, 0, 0, 0, 0>>]

\* the commands of a complete run, corrective commands left out
FixedOrder ==
    <<GetErrorsFrame(0), GetErrorsFrame(1), GetErrorsFrame(4),
      [id |-> 41, data |-> ZeroData],
      SetAxisStateFrame(4), SetAxisStateFrame(7),
      [id |-> 63, data |-> ZeroData],
      [id |-> 54, data |-> ZeroData]>>

IsCorrective(m) == m = SetAxisStateFrame(1)
NotCorrective(m) == ~IsCorrective(m)
IsPrefix(a, b) == Len(a) <= Len(b) /\ a = SubSeq(b, 1, Len(a))

\* full_diagnostic returned (did not raise) and got no heartbeat in step 1
NoHeartbeatRun == Returned /\ IsNone(fd.state)

C7_Aggregate ==
    Returned /\ ~IsNone(fd.state) =>
        /\ Len(hist) = 5
        /\ <<hist[1].fn, hist[2].fn, hist[3].fn>> = <<"get_errors", "get_errors", "get_errors">>
        /\ <<hist[1].arg, hist[2].arg, hist[3].arg>> = <<0, 1, 4>>
        /\ <<hist[4].arg, hist[5].arg>> = <<"motor", "encoder">>
        /\ ret.v = (/\ hist[1].value.v = 0 /\ hist[1].value.hi = 0
                    /\ hist[2].value.v = 0 /\ hist[2].value.hi = 0
                    /\ hist[3].value.v = 0 /\ hist[3].value.hi = 0
                    /\ hist[4].value
                    /\ hist[5].value)

\* a complete run that reports success
C7_Witness == Returned /\ ~IsNone(fd.state) /\ ret = BoolV(TRUE)

\* C8: what get_errors hands its caller after a timeout differs from what it
\* hands it after a reply, so that the caller can tell the two apart.
C8_NoResponseDistinguishable ==
    \A i, j \in DOMAIN hist :
        /\ hist[i].fn = "get_errors"
        /\ hist[j].fn = "get_errors"
        /\ ~hist[i].replied
        /\ hist[j].replied
        => hist[i].value # hist[j].value

\* C9: the frame get_errors or get_encoder_estimates decodes is never the
\* node's late reply to the request of an earlier call that had timed out
\* (the first three frames sent are the requests of the three get_errors
\* calls, whose returns are the first three entries of hist).
C9_NoLateReplyDecoded ==
    (At("ge_wait") \/ At("gee_wait")) /\ ~IsNone(ret) =>
        ~ \E k \in 1..(Len(sent) - 1) :
              /\ ret.msg.re = k
              /\ k \in DOMAIN hist
              /\ hist[k].fn = "get_errors"
              /\ ~hist[k].replied

\* C11: get_heartbeat sends nothing: from its call to its return, whether it
\* returns a sample, returns (None, None) or raises, no step appends a frame
\* to what the client sent; it only consumes frames the bus delivers.
C11_HeartbeatSendsNothing == [][sent' = sent]_vars

\* get_heartbeat returned a sample decoded from a frame it received, and
\* what the client had sent before the call is all that was sent
C11_Witness ==
    /\ Returned
    /\ rx.matched > 0
    /\ ret.t = "pair"
    /\ ~IsNone(ret.a)
    /\ Len(sent) = 1

\* the wait of a decoding caller has returned a frame of fewer bytes than
\* the caller's decoder reads: 6 in get_heartbeat, 8 for the motor error
\* and 4 for any other error in get_errors, 8 in get_encoder_estimates, and
\* poll in the two pollers
Malformed(poll) ==
    /\ Top \in {"gh_wait", "ge_wait", "gee_wait", "cal_wait"}
    /\ ~IsNone(ret)
    /\ Len(ret.msg.data) <
          (IF At("gh_wait") THEN 6
           ELSE IF At("ge_wait") THEN (IF error_type = 1 THEN 8 ELSE 4)
           ELSE IF At("gee_wait") THEN 8
           ELSE poll)

\* the step raises a decoding error: no value is returned, None included,
\* nothing is recorded as a result and nothing is sent
DecodingFails ==
    /\ pc' = <<>>
    /\ raised' \in {"IndexError", "struct.error"}
    /\ ret' = None
    /\ UNCHANGED <<fd, sent, hist>>

\* C12 as stated: a matched frame shorter than its decoder requires, a
\* heartbeat of fewer than 6 bytes in the pollers included, never yields a
\* decoded value and never the no-response sentinel: the step raises.
C12_ShortFrameRaises == [][Malformed(6) => DecodingFails]_vars

\* what the code does instead: the pollers read byte 4 only, so they reject
\* a heartbeat of fewer than 5 bytes and decode one of 5
ShortFrameRaisesPollerFive == [][Malformed(5) => DecodingFails]_vars

\* C13: the id sent and matched is (node << 5) | cmdId, and for every node
\* below 2^6 and command below 2^5 the pair is recovered from it as id >> 5
\* and id & 0x1F, so distinct pairs have distinct ids; wait_for_message
\* returns no frame addressed to another node or carrying another command.
C13_IdInvertibleAndExact ==
    /\ \A i \in 1..Len(sent) :
          /\ sent[i].id = node_id * 32 + w.cmd
          /\ sent[i].id \div 32 = node_id
          /\ sent[i].id % 32 = w.cmd
          /\ \A f \in Neighbours :
                f.id = sent[i].id <=> f.node = node_id /\ f.cmd = w.cmd
    /\ pc = <<>> /\ ~IsNone(ret) => ret.msg.node = node_id /\ ret.msg.cmd = w.cmd

\* the client of the highest node id waiting for the highest command id was
\* handed a frame for another pair first and then returned its own
C13_Witness ==
    /\ pc = <<>>
    /\ node_id = 2^6 - 1
    /\ w.cmd = 2^5 - 1
    /\ ~IsNone(ret)
    /\ w.elapsed = Sec(RecvTimeout) + 1

\* the value of 4 bytes of data from byte i on, byte i weighing least
WordAt(data, i) ==
    data[i + 1] + 256 * data[i + 2] + 65536 * data[i + 3] + 16777216 * data[i + 4]

\* C14: for a matched reply, get_errors(1) returns the 64-bit little-endian
\* value of bytes 0..7, and get_errors of any other type the 32-bit
\* little-endian value of bytes 0..3, whatever bytes 4..7 are.
C14_ErrorWidthByType ==
    Returned /\ rx.first # <<>> =>
        LET data == rx.first[1].data
        IN  IF error_type = 1
              THEN Len(data) >= 8 =>
                     ret = [t |-> "int", v |-> WordAt(data, 0), hi |-> WordAt(data, 4)]
              ELSE Len(data) >= 4 =>
                     ret = [t |-> "int", v |-> WordAt(data, 0), hi |-> 0]

\* get_errors(1) returned 1 for the reply [1, 0, 0, 0, 0, 0, 0, 0]
C14_Witness ==
    /\ Returned
    /\ error_type = 1
    /\ rx.first # <<>>
    /\ rx.first[1].data = <<1, 0, 0, 0, 0, 0, 0, 0>>
    /\ ret = [t |-> "int", v |-> 1, hi |-> 0]

\* C15: the bus is acquired at most once, and when the run is over
\* shutdown() was called exactly once if it was acquired and not at all if
\* the construction failed, and no exception leaves the run.
C15_ShutdownExactlyOnce ==
    /\ transport.acquired <= 1
    /\ pc = <<>> => transport.shutdowns = transport.acquired /\ raised = "none"

\* what the code does: the bus of a constructed client is shut down exactly
\* once on every path, and the run that failed to construct its client
\* ends with the NameError of the finally block
ShutdownOnceWhenConstructed ==
    /\ transport.acquired <= 1
    /\ pc = <<>> =>
          IF transport.acquired = 1
            THEN transport.shutdowns = 1 /\ raised = "none"
            ELSE transport.shutdowns = 0 /\ raised = "NameError"

\* C16: a poller returns success only when the Idle heartbeat was received
\* no later than 15 s (motor) or 20 s (encoder) after the start command; an
\* Idle heartbeat that arrives after the deadline, during the last inner
\* wait, does not turn the result into success.
C16_SuccessOnlyBeforeDeadline ==
    Returned /\ ret = BoolV(TRUE) =>
        c.elapsed <= (IF c.kind = "motor" THEN 15 ELSE 20) * TicksPerSec

\* what the code does: the inner wait that began before the deadline may
\* hand over an Idle heartbeat received up to 2 s after it (1 s less one
\* tick for the recv that began before the wait's own timeout, 1 s for the
\* last recv)
SuccessWithinDeadlinePlusTwo ==
    Returned /\ ret = BoolV(TRUE) =>
        c.elapsed < (IF c.kind = "motor" THEN 15 ELSE 20) * TicksPerSec + 2 * TicksPerSec

\* the wait of the poller has returned a heartbeat with a byte 4 that is
\* neither Idle nor the state the start command asked for
OtherSample ==
    /\ At("cal_wait")
    /\ ~IsNone(ret)
    /\ Len(ret.msg.data) >= 5
    /\ ret.msg.data[5] \notin {1, IF c.kind = "motor" THEN 4 ELSE 7}

\* the poller goes on polling: no result, no return, nothing sent
StaysPolling ==
    /\ pc' = <<"cal_loop">>
    /\ raised' = "none"
    /\ UNCHANGED <<sent, hist>>

\* the step ends the poller with success on an Idle sample
IdleToSuccess ==
    /\ At("cal_wait")
    /\ ~IsNone(ret)
    /\ Len(ret.msg.data) >= 5
    /\ ret.msg.data[5] = 1
    /\ ret' = [t |-> "bool", v |-> TRUE]
    /\ raised' = "none"

\* the step ends the poller as failed once the deadline has elapsed
DeadlineToFailed ==
    /\ At("cal_loop")
    /\ c.elapsed >= (IF c.kind = "motor" THEN 15 ELSE 20) * TicksPerSec
    /\ ret' = [t |-> "bool", v |-> FALSE]
    /\ raised' = "none"

\* the step ends the poller with an exception and no result
ExceptionOut ==
    /\ raised' \in {"IndexError", "CanError"}
    /\ ret' = None
    /\ UNCHANGED <<sent, hist>>

\* C17 as stated: a heartbeat whose axis state is neither Idle nor the
\* in-progress state leaves the poller polling, with nothing returned and
\* nothing sent; a finished poller does nothing more; and the poller is
\* left in two ways only, an Idle sample (success) and the deadline (failed).
C17_TwoWaysOut ==
    [][/\ OtherSample => StaysPolling
       /\ pc = <<>> => UNCHANGED vars
       /\ pc # <<>> /\ pc' = <<>> => IdleToSuccess \/ DeadlineToFailed]_vars

\* C17 amended: the same, with the third way out that the code has: an
\* exception raised by the decoding of a heartbeat without byte 4 or by
\* bus.recv, which ends the poller without a result.
C17_TwoWaysOutOrException ==
    [][/\ OtherSample => StaysPolling
       /\ pc = <<>> => UNCHANGED vars
       /\ pc # <<>> /\ pc' = <<>> =>
             IdleToSuccess \/ DeadlineToFailed \/ ExceptionOut]_vars

\* the encoder poller decoded a heartbeat in the motor's in-progress state
\* and is polling again, having sent its start command only
C17_Witness ==
    /\ pc = <<"cal_loop">>
    /\ c.kind = "encoder"
    /\ ~IsNone(ret)
    /\ ret.t = "msg"
    /\ Len(ret.msg.data) >= 5
    /\ ret.msg.data[5] = 4
    /\ sent = <<SetAxisStateFrame(7)>>

\* C18: a poller never reports success on an Idle heartbeat that the node
\* emitted before the start command took effect.
C18_NoSuccessOnStaleIdle ==
    [][At("cal_wait") /\ ~IsNone(ret) /\ ret.msg.stale
          => ~(pc' = <<>> /\ ret' = [t |-> "bool", v |-> TRUE])]_vars

\* C19: whenever control has left a poller that sent its start command, an
\* Idle heartbeat was observed (the poller returned success) or a corrective
\* set-axis-state(Idle) frame was sent.
C19_IdleSeenOrCorrectiveSent ==
    pc = <<>> /\ Len(sent) >= 1 =>
        \/ raised = "none" /\ ret.t = "bool" /\ ret.v
        \/ \E i \in 1..Len(sent) : sent[i] = SetAxisStateFrame(1)

\* what the code does: the corrective frame is sent on the deadline path
\* only; an exception leaves the poller with the start command as the last
\* frame sent
CorrectiveOnlyOnDeadline ==
    pc = <<>> /\ raised # "none" => sent = <<SetAxisStateFrame(StartState(c.kind))>>

\* C20: every run of full_diagnostic reaches its return (or ends by an
\* exception), whatever frames arrive, and never has more than 10 frames
\* sent.
C20_TerminatesWithinTenFrames == <>(pc = <<>>) /\ [](Len(sent) <= 10)

\* full_diagnostic returned after sending all 10 frames, both corrective
\* commands included
C20_Witness ==
    /\ Returned
    /\ Len(sent) = 10
    /\ sent[6] = SetAxisStateFrame(1)
    /\ sent[8] = SetAxisStateFrame(1)

==========================================================================
